---- MODULE Spec2Model ----
(***************************************************************************)
(* GAIA CANSAT flight-data analyser: the data cleaning and derived-metrics *)
(* pipeline of the browser script (load, cleanData, proceed/reset, air     *)
(* quality classification, altitude aggregation, statistics).             *)
(*                                                                         *)
(* JavaScript values are modelled as follows.                              *)
(*  - A number is an exact rational [n, d] in lowest terms with d >= 0;    *)
(*    d = 0 encodes the non-finite numbers: 1/0 is Infinity, -1/0 is       *)
(*    -Infinity and 0/0 is NaN.  Floating-point rounding is not modelled.  *)
(*  - A CSV cell text is a sequence of one-character strings.              *)
(*  - A row field is a cell: undefined, a text, or a number.               *)
(*  - Row objects live in a heap (rows); arrays are sequences of heap      *)
(*    ids, so two arrays can share the same row objects, as the spread     *)
(*    copy [...results.data] and Array.prototype.filter do.                *)
(***************************************************************************)
EXTENDS Integers, Sequences, FiniteSets, TLC

\* ------------------------------------------------------------------ numbers

Abs(x) == IF x < 0 THEN -x ELSE x

Sign(x) == IF x < 0 THEN -1 ELSE IF x > 0 THEN 1 ELSE 0

RECURSIVE GCD(_, _)
GCD(a, b) == IF b = 0 THEN a ELSE GCD(b, a % b)

\* The number n/d (d >= 0) in lowest terms.
Norm(n, d) ==
    IF d = 0 THEN [n |-> Sign(n), d |-> 0]
    ELSE LET g == GCD(Abs(n), d) IN [n |-> n \div g, d |-> d \div g]

Q(k) == [n |-> k, d |-> 1]

NaN == [n |-> 0, d |-> 0]

Infinity == [n |-> 1, d |-> 0]

isNaN(a) == a.n = 0 /\ a.d = 0

isFinite(a) == a.d # 0

QNeg(a) == [n |-> -a.n, d |-> a.d]

\* a + b of IEEE arithmetic: Infinity + -Infinity is NaN.
QAdd(a, b) ==
    IF isNaN(a) \/ isNaN(b) THEN NaN
    ELSE IF a.d = 0 /\ b.d = 0 THEN (IF a.n = b.n THEN a ELSE NaN)
    ELSE IF a.d = 0 THEN a
    ELSE IF b.d = 0 THEN b
    ELSE Norm(a.n * b.d + b.n * a.d, a.d * b.d)

QSub(a, b) == QAdd(a, QNeg(b))

\* a / k for an integer k >= 0 (a length): x/0 is +-Infinity, 0/0 is NaN.
QDivInt(a, k) ==
    IF a.d = 0 THEN a
    ELSE Norm(a.n, a.d * k)

\* a * k for an integer k: Infinity * 0 is NaN.
QMulInt(a, k) ==
    IF a.d = 0 THEN [n |-> a.n * Sign(k), d |-> 0]
    ELSE Norm(a.n * k, a.d)

\* a * b of IEEE arithmetic: Infinity * 0 is NaN.
QMul(a, b) ==
    IF a.d = 0 \/ b.d = 0 THEN [n |-> Sign(a.n) * Sign(b.n), d |-> 0]
    ELSE Norm(a.n * b.n, a.d * b.d)

\* a < b; every comparison with NaN is false.
QLt(a, b) ==
    /\ ~isNaN(a)
    /\ ~isNaN(b)
    /\ IF a.d = 0 /\ b.d = 0 THEN a.n < b.n
       ELSE IF a.d = 0 THEN a.n < 0
       ELSE IF b.d = 0 THEN b.n > 0
       ELSE a.n * b.d < b.n * a.d

QGt(a, b) == QLt(b, a)

\* a >= b
QGe(a, b) == ~isNaN(a) /\ ~isNaN(b) /\ ~QLt(a, b)

\* Math.floor
QFloor(a) == IF a.d = 0 THEN a ELSE Q(a.n \div a.d)

\* ------------------------------------------------------------------ parseFloat

Digits == <<"0", "1", "2", "3", "4", "5", "6", "7", "8", "9">>

IsDigit(c) == \E i \in 1..Len(Digits) : Digits[i] = c

DigitVal(c) == (CHOOSE i \in 1..Len(Digits) : Digits[i] = c) - 1

InfinityText == <<"I", "n", "f", "i", "n", "i", "t", "y">>

\* First index >= i of s that holds no white space.
RECURSIVE SkipSpace(_, _)
SkipSpace(s, i) ==
    IF i <= Len(s) /\ s[i] = " " THEN SkipSpace(s, i + 1) ELSE i

\* First index >= i of s that holds no decimal digit.
RECURSIVE DigitsEnd(_, _)
DigitsEnd(s, i) ==
    IF i <= Len(s) /\ IsDigit(s[i]) THEN DigitsEnd(s, i + 1) ELSE i

\* The value of the digits s[i..j-1], continuing from acc.
RECURSIVE DigitsValue(_, _, _, _)
DigitsValue(s, i, j, acc) ==
    IF i >= j THEN acc ELSE DigitsValue(s, i + 1, j, 10 * acc + DigitVal(s[i]))

RECURSIVE Pow10(_)
Pow10(k) == IF k = 0 THEN 1 ELSE 10 * Pow10(k - 1)

\* parseFloat of a text: leading white space, an optional sign, then the
\* longest prefix that is "Infinity" or digits with an optional fraction;
\* NaN when that prefix is empty.  Trailing characters are ignored.
\* (Exponent notation does not occur in the texts of this model.)
\* The steps take the positions found so far as parameters: i0 after the
\* white space, i1 after the sign, iE after the integer digits, nFr the
\* number of fraction digits.
IsNeg(s, i0) == i0 <= Len(s) /\ s[i0] = "-"

SignEnd(s, i0) == IF i0 <= Len(s) /\ s[i0] \in {"-", "+"} THEN i0 + 1 ELSE i0

FracDigits(s, iE) ==
    IF iE <= Len(s) /\ s[iE] = "." THEN DigitsEnd(s, iE + 1) - (iE + 1) ELSE 0

Decimal(s, i1, iE, nFr) ==
    IF (iE - i1) + nFr = 0 THEN NaN
    ELSE Norm(DigitsValue(s, iE + 1, iE + 1 + nFr, DigitsValue(s, i1, iE, 0)),
              Pow10(nFr))

DecimalAt(s, i1, iE) == Decimal(s, i1, iE, FracDigits(s, iE))

Unsigned(s, i1) ==
    IF i1 + Len(InfinityText) - 1 <= Len(s)
       /\ SubSeq(s, i1, i1 + Len(InfinityText) - 1) = InfinityText
    THEN Infinity
    ELSE DecimalAt(s, i1, DigitsEnd(s, i1))

ApplySign(neg, q) == IF neg THEN QNeg(q) ELSE q

Signed(s, i0) == ApplySign(IsNeg(s, i0), Unsigned(s, SignEnd(s, i0)))

ParseFloatText(s) == Signed(s, SkipSpace(s, 1))

\* ------------------------------------------------------------------ cells

Undef == [t |-> "undef", s |-> <<>>, q |-> NaN]

Str(s) == [t |-> "str", s |-> s, q |-> NaN]

Num(q) == [t |-> "num", s |-> <<>>, q |-> q]

\* parseFloat(cell): ToString, then parse; undefined gives NaN and a number
\* gives itself.
parseFloat(c) ==
    IF c.t = "num" THEN c.q
    ELSE IF c.t = "str" THEN ParseFloatText(c.s)
    ELSE NaN

\* row[column]: undefined when the row has no such key.
Field(row, column) ==
    IF column \in DOMAIN row THEN row[column] ELSE Undef

\* ------------------------------------------------------------------ state

VARIABLES
    statsContentShown,      \* statsContent is displayed
    statsGrid,              \* the stat cards generateStatistics rendered
    rows,                   \* heap of row objects: id -> [column -> cell]
    csvData,                \* array read by statistics, charts, air quality
    csvHeaders,             \* results.meta.fields of the last completed parse
    originalData,           \* spread copy of results.data
    cleanedData,            \* result of the last cleanData
    currentData,            \* current selection
    isDataCleaned,
    cleaningContentShown,   \* cleaningContent.style.display = 'block'
    cleaningReport,         \* what displayCleaningSummary/Details rendered
    airQualityContentShown, \* airQualityContent.style.display # 'none'
    airView,                \* what the air quality analysis rendered
    alertMsg,               \* text of the last alert()
    pending,                \* files handed to Papa.parse, not yet completed
    nFiles,                 \* number of processFile calls so far
    fileInfo                \* the file whose name and size showFileInfo displays

vars == <<statsContentShown, statsGrid, rows, csvData, csvHeaders, originalData, cleanedData, currentData,
          isDataCleaned, cleaningContentShown, cleaningReport,
          airQualityContentShown, airView, alertMsg, pending, nFiles,
          fileInfo>>

\* An array reference: null, or an array of heap ids.
Null == [null |-> TRUE, ids |-> <<>>]

Arr(ids) == [null |-> FALSE, ids |-> ids]

\* The rows an array holds, in order.
RowsOf(heap, a) == [i \in 1..Len(a.ids) |-> heap[a.ids[i]]]

Range(f) == {f[i] : i \in DOMAIN f}

\* ------------------------------------------------------------------ cleanData

DefaultBaseAltitude == 571

\* v || 571: the default replaces NaN and 0.
OrDefault(v) == IF isNaN(v) \/ v = Q(0) THEN Q(DefaultBaseAltitude) ELSE v

\* parseFloat(document.getElementById('baseAltitude').value) || 571
BaseAltitudeOf(text) == OrDefault(ParseFloatText(text))

\* Object.entries(physicalRanges), in insertion order.
physicalRanges ==
    << [column |-> "Temperatura_C", min |-> -50,   max |-> 85],
       [column |-> "Presion_hPa",   min |-> 300,   max |-> 1100],
       [column |-> "Humedad_%",     min |-> 0,     max |-> 100],
       [column |-> "Accel_X_m_s2",  min |-> -160,  max |-> 160],
       [column |-> "Accel_Y_m_s2",  min |-> -160,  max |-> 160],
       [column |-> "Accel_Z_m_s2",  min |-> -160,  max |-> 160],
       [column |-> "Gyro_X_deg_s",  min |-> -2000, max |-> 2000],
       [column |-> "Gyro_Y_deg_s",  min |-> -2000, max |-> 2000],
       [column |-> "Gyro_Z_deg_s",  min |-> -2000, max |-> 2000],
       [column |-> "Altitud_m",     min |-> -500,  max |-> 100000] >>

\* The first filter recording a duplicate without returning false.
RECURSIVE DedupScanKeepsRow(_, _, _, _, _, _)
DedupScanKeepsRow(heap, data, i, timeMap, kept, dups) ==
    IF i > Len(data) THEN [data |-> kept, duplicatesRemoved |-> dups]
    ELSE IF Field(heap[data[i]], "Tiempo_ms") \in timeMap
    THEN DedupScanKeepsRow(heap, data, i + 1, timeMap, Append(kept, data[i]),
                   Append(dups, [index |-> i - 1,
                                 time  |-> Field(heap[data[i]], "Tiempo_ms")]))
    ELSE DedupScanKeepsRow(heap, data, i + 1,
                   timeMap \cup {Field(heap[data[i]], "Tiempo_ms")},
                   Append(kept, data[i]), dups)

\* cleanData with rows that have no time field exempt from the duplicate
\* filter.
RECURSIVE DedupScanSkipsMissing(_, _, _, _, _, _)
DedupScanSkipsMissing(heap, data, i, timeMap, kept, dups) ==
    IF i > Len(data) THEN [data |-> kept, duplicatesRemoved |-> dups]
    ELSE IF /\ Field(heap[data[i]], "Tiempo_ms").t # "undef"
            /\ Field(heap[data[i]], "Tiempo_ms") \in timeMap
    THEN DedupScanSkipsMissing(heap, data, i + 1, timeMap, kept,
                   Append(dups, [index |-> i - 1,
                                 time  |-> Field(heap[data[i]], "Tiempo_ms")]))
    ELSE DedupScanSkipsMissing(heap, data, i + 1,
                   timeMap \cup {Field(heap[data[i]], "Tiempo_ms")},
                   Append(kept, data[i]), dups)

\* cleanData with a time key coerced to a number before the Map lookup.
RECURSIVE DedupScanCoerced(_, _, _, _, _, _)
DedupScanCoerced(heap, data, i, timeMap, kept, dups) ==
    IF i > Len(data) THEN [data |-> kept, duplicatesRemoved |-> dups]
    ELSE IF parseFloat(Field(heap[data[i]], "Tiempo_ms")) \in timeMap
    THEN DedupScanCoerced(heap, data, i + 1, timeMap, kept,
                   Append(dups, [index |-> i - 1,
                                 time  |-> Field(heap[data[i]], "Tiempo_ms")]))
    ELSE DedupScanCoerced(heap, data, i + 1,
                   timeMap \cup {parseFloat(Field(heap[data[i]], "Tiempo_ms"))},
                   Append(kept, data[i]), dups)

\* Step 1, the first filter: position i (index i - 1 of the callback) runs
\* over the spread copy of originalData; timeMap holds the time keys seen.
RECURSIVE DedupScan(_, _, _, _, _, _)
DedupScan(heap, data, i, timeMap, kept, dups) ==
    IF i > Len(data) THEN [data |-> kept, duplicatesRemoved |-> dups]
    ELSE IF Field(heap[data[i]], "Tiempo_ms") \in timeMap
    THEN DedupScan(heap, data, i + 1, timeMap, kept,
                   Append(dups, [index |-> i - 1,
                                 time  |-> Field(heap[data[i]], "Tiempo_ms")]))
    ELSE DedupScan(heap, data, i + 1,
                   timeMap \cup {Field(heap[data[i]], "Tiempo_ms")},
                   Append(kept, data[i]), dups)

\* The range test with exclusive bounds (<= and >= for < and >).
OutOfRangeExclusive(value, r) ==
    isNaN(value) \/ ~QGt(value, Q(r.min)) \/ ~QLt(value, Q(r.max))

\* isNaN(value) || value < range[0] || value > range[1]
OutOfRange(value, r) ==
    isNaN(value) \/ QLt(value, Q(r.min)) \/ QGt(value, Q(r.max))

\* The test of one physicalRanges entry on one row.
RangeViolated(row, r) ==
    /\ Field(row, r.column).t # "undef"
    /\ OutOfRange(parseFloat(Field(row, r.column)), r)

\* The for-loop running to its end and reporting the last violated entry.
RECURSIVE LastViolation(_, _)
LastViolation(row, k) ==
    IF k > Len(physicalRanges) THEN 0
    ELSE IF LastViolation(row, k + 1) # 0 THEN LastViolation(row, k + 1)
    ELSE IF RangeViolated(row, physicalRanges[k]) THEN k
    ELSE 0

\* The for-loop over Object.entries(physicalRanges): the position of the
\* first violated entry, 0 when the loop ends without returning false.
RECURSIVE FirstViolation(_, _)
FirstViolation(row, k) ==
    IF k > Len(physicalRanges) THEN 0
    ELSE IF RangeViolated(row, physicalRanges[k]) THEN k
    ELSE FirstViolation(row, k + 1)

OutlierReason(value, r) ==
    IF isNaN(value) THEN "Valor no numerico"
    ELSE IF QLt(value, Q(r.min)) THEN "Valor muy bajo"
    ELSE "Valor muy alto"

\* The entry pushed to outliersRemoved.
OutlierEntry(index, r, value) ==
    [index |-> index, column |-> r.column, value |-> value,
     minRange |-> r.min, maxRange |-> r.max, reason |-> OutlierReason(value, r)]

\* Step 2, the second filter: position i (index i - 1 of the callback) runs
\* over the array step 1 returned.
RECURSIVE RangeScan(_, _, _, _, _)
\* The second filter recording an outlier without returning false.
RangeStepKeepsRow(heap, data, i, kept, outs, k) ==
    IF k # 0
    THEN RangeScan(heap, data, i + 1, Append(kept, data[i]),
             Append(outs,
                 OutlierEntry(i - 1, physicalRanges[k],
                     parseFloat(Field(heap[data[i]], physicalRanges[k].column)))))
    ELSE RangeScan(heap, data, i + 1, Append(kept, data[i]), outs)

RangeStep(heap, data, i, kept, outs, k) ==
    IF k # 0
    THEN RangeScan(heap, data, i + 1, kept,
             Append(outs,
                 OutlierEntry(i - 1, physicalRanges[k],
                     parseFloat(Field(heap[data[i]], physicalRanges[k].column)))))
    ELSE RangeScan(heap, data, i + 1, Append(kept, data[i]), outs)

RangeScan(heap, data, i, kept, outs) ==
    IF i > Len(data) THEN [data |-> kept, outliersRemoved |-> outs]
    ELSE RangeStep(heap, data, i, kept, outs, FirstViolation(heap[data[i]], 1))

\* The altitude correction adding the baseline instead of subtracting it.
AdjustedRowAdds(row, baseAltitude) ==
    [row EXCEPT !["Altitud_m"] =
        Num(QAdd(parseFloat(row["Altitud_m"]), baseAltitude))]

\* row['Altitud_m'] = parseFloat(row['Altitud_m']) - baseAltitude
AdjustedRow(row, baseAltitude) ==
    [row EXCEPT !["Altitud_m"] =
        Num(QSub(parseFloat(row["Altitud_m"]), baseAltitude))]

\* Step 3, data.forEach: the row objects of data are written in place.
AdjustAltitude(heap, data, baseAltitude) ==
    [id \in DOMAIN heap |->
        IF id \in Range(data) /\ Field(heap[id], "Altitud_m").t # "undef"
        THEN AdjustedRow(heap[id], baseAltitude)
        ELSE heap[id]]

\* The end of cleanData: s1 and s2 are what the two filters returned.
CleanResult(heap, originalCount, baseAltitude, s1, s2) ==
    [rows   |-> AdjustAltitude(heap, s2.data, baseAltitude),
     data   |-> s2.data,
     report |-> [shown             |-> TRUE,
                 originalCount     |-> originalCount,
                 cleanedCount      |-> Len(s2.data),
                 duplicatesRemoved |-> s1.duplicatesRemoved,
                 outliersRemoved   |-> s2.outliersRemoved,
                 baseAltitude      |-> baseAltitude]]

\* The range filter run over the surviving rows newest first.
CleanAfterDedupNewestFirst(heap, originalCount, baseAltitude, s1) ==
    CleanResult(heap, originalCount, baseAltitude, s1,
                RangeScan(heap,
                          [i \in 1..Len(s1.data) |->
                              s1.data[Len(s1.data) + 1 - i]],
                          1, <<>>, <<>>))

CleanAfterDedup(heap, originalCount, baseAltitude, s1) ==
    CleanResult(heap, originalCount, baseAltitude, s1,
                RangeScan(heap, s1.data, 1, <<>>, <<>>))

\* The body of cleanData after the null check: the heap and cleanedData it
\* leaves, and the figures it passes to the display functions.
CleanRun(heap, original, baseAltitude) ==
    CleanAfterDedup(heap, Len(original.ids), baseAltitude,
                    DedupScan(heap, original.ids, 1, {}, <<>>, <<>>))

NoReport == [shown |-> FALSE]

\* ------------------------------------------------------------------ air quality

\* Object.keys(airQualityMetrics) and of the classification object.
TierKeys == <<"excellent", "good", "moderate", "poor", "veryPoor">>

\* The if / else-if chain of classifyAirQuality for one value.
TierOf(value) ==
    IF QGe(value, Q(300)) THEN "excellent"
    ELSE IF QGe(value, Q(200)) THEN "good"
    ELSE IF QGe(value, Q(100)) THEN "moderate"
    ELSE IF QGe(value, Q(50)) THEN "poor"
    ELSE "veryPoor"

\* Each tier's array holds the values pushed to it, in input order.
classifyAirQuality(resistanceData) ==
    [key \in Range(TierKeys) |->
        SelectSeq(resistanceData, LAMBDA value : TierOf(value) = key)]

\* csvData.map(row => parseFloat(row[column]))
ParsedColumn(heap, data, column) ==
    [i \in 1..Len(data.ids) |-> parseFloat(Field(heap[data.ids[i]], column))]

\* csvData.map(row => parseFloat(row[column])).filter(val => !isNaN(val))
NumericColumn(heap, data, column) ==
    SelectSeq(ParsedColumn(heap, data, column), LAMBDA val : ~isNaN(val))

Includes(seq, e) == \E i \in 1..Len(seq) : seq[i] = e

AllText == <<"a", "l", "l">>

IntAt(s, i1, iE) == IF iE = i1 THEN NaN ELSE Q(DigitsValue(s, i1, iE, 0))

IntFrom(s, i1) == IntAt(s, i1, DigitsEnd(s, i1))

SignedInt(s, i0) == ApplySign(IsNeg(s, i0), IntFrom(s, SignEnd(s, i0)))

\* parseInt(interval) of a select value: optional sign and decimal digits.
parseInt(s) == SignedInt(s, SkipSpace(s, 1))

\* The altitudeData array of processAltitudeData.
AltitudeData(heap, data, headers, n) ==
    IF Includes(headers, "Altitud_m")
    THEN NumericColumn(heap, data, "Altitud_m")
    ELSE [i \in 1..n |-> Q(0)]

\* altitudeData[index] || index, for the 1-based position i (index = i - 1):
\* the index when the entry is missing or is 0.
AltitudeAt(altitudeData, i) ==
    IF i <= Len(altitudeData) /\ altitudeData[i] # Q(0)
    THEN altitudeData[i]
    ELSE Q(i - 1)

\* resistanceData.map((resistance, index) =>
\*     ({altitude: altitudeData[index] || index, resistance}))
Points(altitudeData, resistanceData) ==
    [i \in 1..Len(resistanceData) |->
        [altitude   |-> AltitudeAt(altitudeData, i),
         resistance |-> resistanceData[i]]]

\* Math.floor(altitude / intervalSize) * intervalSize, for the integer or NaN
\* that parseInt returns.
GroupKey(altitude, intervalSize) ==
    IF isNaN(intervalSize) \/ intervalSize.n = 0 THEN NaN
    ELSE IF intervalSize.n > 0
    THEN QMulInt(QFloor(QDivInt(altitude, intervalSize.n)), intervalSize.n)
    ELSE QMulInt(QFloor(QDivInt(QNeg(altitude), -intervalSize.n)),
                 intervalSize.n)

RECURSIVE SumQ(_, _)
SumQ(seq, i) == IF i > Len(seq) THEN Q(0) ELSE QAdd(seq[i], SumQ(seq, i + 1))

\* The keys of the groups object in the order Object.keys lists them:
\* non-negative integer keys ascending, then the others in insertion order.
RECURSIVE InsertionOrder(_, _, _)
InsertionOrder(keys, i, acc) ==
    IF i > Len(keys) THEN acc
    ELSE IF Includes(acc, keys[i]) THEN InsertionOrder(keys, i + 1, acc)
    ELSE InsertionOrder(keys, i + 1, Append(acc, keys[i]))

IsIndexKey(k) == isFinite(k) /\ k.d = 1 /\ k.n >= 0

Least(S) == CHOOSE k \in S : \A o \in S : k.n <= o.n

RECURSIVE AscendingKeys(_)
AscendingFrom(S, m) == <<m>> \o AscendingKeys(S \ {m})

AscendingKeys(S) == IF S = {} THEN <<>> ELSE AscendingFrom(S, Least(S))

KeysInOrder(order) ==
    AscendingKeys({k \in Range(order) : IsIndexKey(k)})
    \o SelectSeq(order, LAMBDA k : ~IsIndexKey(k))

OwnKeys(keys) == KeysInOrder(InsertionOrder(keys, 1, <<>>))

InsertAt(acc, e, pos) ==
    SubSeq(acc, 1, pos) \o <<e>> \o SubSeq(acc, pos + 1, Len(acc))

\* Array.prototype.sort((a, b) => a.altitude - b.altitude): stable insertion
\* of each element after the last one not greater than it.
RECURSIVE SortByAltitude(_, _, _)
SortByAltitude(seq, i, acc) ==
    IF i > Len(seq) THEN acc
    ELSE SortByAltitude(seq, i + 1,
             InsertAt(acc, seq[i],
                 Cardinality({j \in 1..Len(acc) :
                                 ~QGt(acc[j].altitude, seq[i].altitude)})))

\* The positions of the readings pushed to groups[k].
Group(keyOf, k) ==
    SelectSeq([i \in 1..Len(keyOf) |-> i], LAMBDA i : keyOf[i] = k)

\* The entry pushed to processedData for the group of positions g.
Bucket(points, g) ==
    [altitude   |-> QDivInt(SumQ([j \in 1..Len(g) |-> points[g[j]].altitude], 1),
                            Len(g)),
     resistance |-> QDivInt(SumQ([j \in 1..Len(g) |-> points[g[j]].resistance], 1),
                            Len(g)),
     count      |-> Len(g)]

BucketsOf(points, keyOf, keys) ==
    SortByAltitude([j \in 1..Len(keys) |-> Bucket(points, Group(keyOf, keys[j]))],
                   1, <<>>)

GroupedBy(points, keyOf) == BucketsOf(points, keyOf, OwnKeys(keyOf))

\* The else branch: averages per altitude interval, sorted by altitude.
Buckets(points, intervalSize) ==
    GroupedBy(points, [i \in 1..Len(points) |->
                          GroupKey(points[i].altitude, intervalSize)])

ProcessPoints(points, interval) ==
    IF interval = AllText THEN points ELSE Buckets(points, parseInt(interval))

\* processAltitudeData(resistanceData, interval), reading csvData/csvHeaders.
processAltitudeData(heap, data, headers, resistanceData, interval) ==
    ProcessPoints(Points(AltitudeData(heap, data, headers, Len(resistanceData)),
                         resistanceData),
                  interval)

\* Math.max(...values) / Math.min(...values)
RECURSIVE MathMax(_, _, _)
MathMax(seq, i, acc) ==
    IF i > Len(seq) THEN acc
    ELSE IF isNaN(acc) \/ isNaN(seq[i]) THEN MathMax(seq, i + 1, NaN)
    ELSE IF QGt(seq[i], acc) THEN MathMax(seq, i + 1, seq[i])
    ELSE MathMax(seq, i + 1, acc)

RECURSIVE MathMin(_, _, _)
MathMin(seq, i, acc) ==
    IF i > Len(seq) THEN acc
    ELSE IF isNaN(acc) \/ isNaN(seq[i]) THEN MathMin(seq, i + 1, NaN)
    ELSE IF QLt(seq[i], acc) THEN MathMin(seq, i + 1, seq[i])
    ELSE MathMin(seq, i + 1, acc)

\* (a, b) => qualityAnalysis[a].length > qualityAnalysis[b].length ? a : b
PredominantStep(qualityAnalysis, a, b) ==
    IF Len(qualityAnalysis[a]) > Len(qualityAnalysis[b]) THEN a ELSE b

\* Object.keys(qualityAnalysis).reduce(...) without an initial value.
RECURSIVE PredominantReduce(_, _, _)
PredominantReduce(qualityAnalysis, a, i) ==
    IF i > Len(TierKeys) THEN a
    ELSE PredominantReduce(qualityAnalysis,
                           PredominantStep(qualityAnalysis, a, TierKeys[i]),
                           i + 1)

generateQualityMetrics(qualityAnalysis, resistanceData) ==
    [avgResistance      |-> QDivInt(SumQ(resistanceData, 1), Len(resistanceData)),
     maxResistance      |-> MathMax(resistanceData, 1, QNeg(Infinity)),
     minResistance      |-> MathMin(resistanceData, 1, Infinity),
     predominantQuality |-> PredominantReduce(qualityAnalysis, TierKeys[1], 2),
     totalData          |-> Len(resistanceData)]

\* ------------------------------------------------------------------ files

\* One parsed row: the texts of a line keyed by the header names; a line with
\* fewer fields than the header leaves the later keys undefined.
Row(fields, texts) ==
    [c \in Range(fields) |->
        IF (CHOOSE j \in 1..Len(fields) : fields[j] = c) <= Len(texts)
        THEN Str(texts[CHOOSE j \in 1..Len(fields) : fields[j] = c])
        ELSE Undef]

RowsFrom(fields, lines) == [i \in 1..Len(lines) |-> Row(fields, lines[i])]

T0 == <<"0">>
T10 == <<"1", "0">>
T20 == <<"2", "0">>
T21 == <<"2", "1">>
T30 == <<"3", "0">>
T49p5 == <<"4", "9", ".", "5">>
T50 == <<"5", "0">>
T75 == <<"7", "5">>
T85 == <<"8", "5">>
T86 == <<"8", "6">>
T100 == <<"1", "0", "0">>
T100p0 == <<"1", "0", "0", ".", "0">>
T120 == <<"1", "2", "0">>
T150 == <<"1", "5", "0">>
T200 == <<"2", "0", "0">>
T250 == <<"2", "5", "0">>
T299p5 == <<"2", "9", "9", ".", "5">>
T300 == <<"3", "0", "0">>
T350 == <<"3", "5", "0">>
T571 == <<"5", "7", "1">>
T600 == <<"6", "0", "0">>
T650 == <<"6", "5", "0">>
T700 == <<"7", "0", "0">>
T999 == <<"9", "9", "9">>
T1200 == <<"1", "2", "0", "0">>
TNeg5 == <<"-", "5">>
TNeg50 == <<"-", "5", "0">>
TNeg51 == <<"-", "5", "1">>
TNeg501 == <<"-", "5", "0", "1">>
TBad == <<"x">>

CsvName == <<"v", ".", "c", "s", "v">>
UpperCsvName == <<"V", ".", "C", "S", "V">>
TxtName == <<"v", ".", "t", "x", "t">>

FlightFields == <<"Tiempo_ms", "Temperatura_C", "Altitud_m", "Resistencia_kOhms">>

AirFields == <<"Altitud_m", "Resistencia_kOhms">>

\* The files of the session specification: the cleaning scenario and the
\* classification scenario of the design's testable properties, a file with
\* malformed lines and an upper-case name, a file that is no CSV by name,
\* and a file the reader cannot read.
Files ==
    << [name |-> CsvName, readable |-> TRUE, errors |-> 0,
        fields |-> FlightFields,
        data |-> RowsFrom(FlightFields,
                    << <<T0,   T20,  T600, T350>>,
                       <<T100, T21,  T571, T250>>,
                       <<T100, T21,  T650, T250>>,
                       <<T200, T999, T700, T150>> >>)],
       [name |-> CsvName, readable |-> TRUE, errors |-> 0,
        fields |-> <<"Tiempo_ms", "Altitud_m", "Resistencia_kOhms">>,
        data |-> RowsFrom(<<"Tiempo_ms", "Altitud_m", "Resistencia_kOhms">>,
                    << <<T0,   T571,  T350>>,
                       <<T10,  T600,  T250>>,
                       <<T20,  T650,  T150>>,
                       <<T30,  T700,  T75>>,
                       <<T50,  T1200, T10>> >>)],
       [name |-> UpperCsvName, readable |-> TRUE, errors |-> 1,
        fields |-> <<"Tiempo_ms", "Resistencia_kOhms", "Altitud_m">>,
        data |-> RowsFrom(<<"Tiempo_ms", "Resistencia_kOhms", "Altitud_m">>,
                    << <<T0, TBad, T600>>,
                       <<T100, TNeg5>>,
                       <<T200, T300, TBad>> >>)],
       [name |-> TxtName, readable |-> TRUE, errors |-> 0,
        fields |-> <<"Tiempo_ms">>,
        data |-> RowsFrom(<<"Tiempo_ms">>, << <<T0>> >>)],
       [name |-> CsvName, readable |-> FALSE, errors |-> 0,
        fields |-> <<>>, data |-> <<>>] >>

\* Texts typed into the baseAltitude input.
BaseAltitudeInputs == {<<>>, T0, T571, T1200}

\* Values of the altitudeInterval select.
IntervalInputs == {AllText, T100, T20}

\* The most files handed to processFile in one run of the session model.
MaxFiles == 2

LowerCase ==
    [c \in {"V", "C", "S", "T", "X"} |->
        CASE c = "V" -> "v" [] c = "C" -> "c" [] c = "S" -> "s"
          [] c = "T" -> "t" [] c = "X" -> "x"]

\* String.prototype.toLowerCase
toLowerCase(s) ==
    [i \in 1..Len(s) |-> IF s[i] \in DOMAIN LowerCase THEN LowerCase[s[i]]
                         ELSE s[i]]

\* String.prototype.endsWith
endsWith(s, suffix) ==
    /\ Len(s) >= Len(suffix)
    /\ SubSeq(s, Len(s) - Len(suffix) + 1, Len(s)) = suffix

DotCsv == <<".", "c", "s", "v">>

\* ------------------------------------------------------------------ load

\* The assignments of Papa.parse's complete callback for results whose
\* data are new row objects with the heap ids `ids` and whose meta.fields
\* are `fields`.  csvData and currentData are results.data, originalData
\* its spread copy: references to arrays of the same row objects.
Complete(fields, data, ids) ==
    /\ rows' = rows \o data
    /\ csvData' = Arr(ids)
    /\ csvHeaders' = fields
    /\ originalData' = Arr(ids)
    /\ currentData' = Arr(ids)

\* processFile(file): rejects a name that does not end in .csv, otherwise
\* hands the file to the parser, which completes later.
processFile(f) ==
    /\ nFiles < MaxFiles
    /\ nFiles' = nFiles + 1
    /\ IF ~endsWith(toLowerCase(Files[f].name), DotCsv)
       THEN /\ alertMsg' = "Por favor selecciona un archivo CSV valido"
            /\ UNCHANGED <<pending, fileInfo>>
       ELSE /\ fileInfo' = f
            /\ pending' = Append(pending, f)
            /\ UNCHANGED alertMsg
    /\ UNCHANGED <<rows, csvData, csvHeaders, originalData, cleanedData,
                   currentData, isDataCleaned, cleaningContentShown,
                   cleaningReport, airQualityContentShown, airView,
                   statsContentShown, statsGrid>>

Remove(seq, k) == SubSeq(seq, 1, k - 1) \o SubSeq(seq, k + 1, Len(seq))

\* The complete callback of one pending parse.
parseComplete(k) ==
    /\ k \in 1..Len(pending)
    /\ Files[pending[k]].readable
    /\ Complete(Files[pending[k]].fields, Files[pending[k]].data,
                [i \in 1..Len(Files[pending[k]].data) |-> Len(rows) + i])
    /\ pending' = Remove(pending, k)
    /\ UNCHANGED <<cleanedData, isDataCleaned, cleaningContentShown,
                   cleaningReport, airQualityContentShown, airView, alertMsg,
                   nFiles, fileInfo,
                   statsContentShown, statsGrid>>

\* The error callback clearing the dataset the downstream components read.
parseErrorClears(k) ==
    /\ k \in 1..Len(pending)
    /\ ~Files[pending[k]].readable
    /\ alertMsg' = "Error al procesar el archivo CSV"
    /\ pending' = Remove(pending, k)
    /\ csvData' = Null
    /\ currentData' = Null
    /\ UNCHANGED <<rows, csvHeaders, originalData, cleanedData,
                   isDataCleaned, cleaningContentShown,
                   cleaningReport, airQualityContentShown, airView, nFiles, fileInfo,
                   statsContentShown, statsGrid>>

\* The error callback of one pending parse.
parseError(k) ==
    /\ k \in 1..Len(pending)
    /\ ~Files[pending[k]].readable
    /\ alertMsg' = "Error al procesar el archivo CSV"
    /\ pending' = Remove(pending, k)
    /\ UNCHANGED <<rows, csvData, csvHeaders, originalData, cleanedData,
                   currentData, isDataCleaned, cleaningContentShown,
                   cleaningReport, airQualityContentShown, airView, nFiles, fileInfo,
                   statsContentShown, statsGrid>>

\* ------------------------------------------------------------------ cleaning handlers

\* The assignments at the end of cleanData, r what CleanRun computed.
StoreCleaned(r) ==
    /\ rows' = r.rows
    /\ cleanedData' = Arr(r.data)
    /\ isDataCleaned' = TRUE
    /\ cleaningReport' = r.report

\* cleanData without the return of its guard: with no original dataset it
\* alerts and then stores an empty cleaned dataset.
cleanDataNoReturn(text) ==
    IF originalData.null
    THEN /\ alertMsg' = "No hay datos para limpiar"
         /\ cleanedData' = Arr(<<>>)
         /\ isDataCleaned' = TRUE
         /\ UNCHANGED <<rows, cleaningReport>>
    ELSE /\ StoreCleaned(CleanRun(rows, originalData, BaseAltitudeOf(text)))
         /\ UNCHANGED alertMsg

\* cleanData(), with `text` the value of the baseAltitude input.
cleanData(text) ==
    IF originalData.null
    THEN /\ alertMsg' = "No hay datos para limpiar"
         /\ UNCHANGED <<rows, cleanedData, isDataCleaned, cleaningReport>>
    ELSE /\ StoreCleaned(CleanRun(rows, originalData, BaseAltitudeOf(text)))
         /\ UNCHANGED alertMsg

\* toggleDataCleaning(), the panel hidden: show it and run cleanData.
toggleDataCleaningOpen ==
    /\ ~cleaningContentShown
    /\ cleaningContentShown' = TRUE
    /\ \E text \in BaseAltitudeInputs : cleanData(text)
    /\ UNCHANGED <<csvData, csvHeaders, originalData, currentData,
                   airQualityContentShown, airView, pending, nFiles, fileInfo,
                   statsContentShown, statsGrid>>

\* toggleDataCleaning(), the panel shown: hide it.
toggleDataCleaningClose ==
    /\ cleaningContentShown
    /\ cleaningContentShown' = FALSE
    /\ UNCHANGED <<rows, csvData, csvHeaders, originalData, cleanedData,
                   currentData, isDataCleaned, cleaningReport,
                   airQualityContentShown, airView, alertMsg, pending, nFiles, fileInfo,
                   statsContentShown, statsGrid>>

\* proceedWithCleanedData assigning currentData only.
proceedCurrentOnly ==
    /\ IF cleanedData.null
       THEN /\ alertMsg' = "No hay datos limpios disponibles"
            /\ UNCHANGED currentData
       ELSE /\ currentData' = cleanedData
            /\ UNCHANGED alertMsg
    /\ UNCHANGED <<rows, csvData, csvHeaders, originalData, cleanedData,
                   isDataCleaned, cleaningContentShown, cleaningReport,
                   airQualityContentShown, airView, pending, nFiles, fileInfo,
                   statsContentShown, statsGrid>>

\* proceedWithCleanedData().  (Its closing alert follows a call of
\* updateColumnDropdowns, which the script does not define; alertMsg keeps
\* the alerts of the guards only.)
proceedWithCleanedData ==
    /\ IF cleanedData.null
       THEN /\ alertMsg' = "No hay datos limpios disponibles"
            /\ UNCHANGED <<currentData, csvData>>
       ELSE /\ currentData' = cleanedData
            /\ csvData' = cleanedData
            /\ UNCHANGED alertMsg
    /\ UNCHANGED <<rows, csvHeaders, originalData, cleanedData, isDataCleaned,
                   cleaningContentShown, cleaningReport,
                   airQualityContentShown, airView, pending, nFiles, fileInfo,
                   statsContentShown, statsGrid>>

\* A reset that restores by overwriting the cleaned dataset with the
\* original one.
resetOverwritesCleaned ==
    /\ IF originalData.null
       THEN /\ alertMsg' = "No hay datos originales disponibles"
            /\ UNCHANGED <<currentData, csvData, isDataCleaned, cleanedData>>
       ELSE /\ currentData' = originalData
            /\ csvData' = originalData
            /\ cleanedData' = IF cleanedData.null THEN cleanedData
                              ELSE originalData
            /\ isDataCleaned' = FALSE
            /\ UNCHANGED alertMsg
    /\ UNCHANGED <<rows, csvHeaders, originalData,
                   cleaningContentShown, cleaningReport,
                   airQualityContentShown, airView, pending, nFiles, fileInfo,
                   statsContentShown, statsGrid>>

\* resetToOriginalData(), with the same remark on its closing alert.
resetToOriginalData ==
    /\ IF originalData.null
       THEN /\ alertMsg' = "No hay datos originales disponibles"
            /\ UNCHANGED <<currentData, csvData, isDataCleaned>>
       ELSE /\ currentData' = originalData
            /\ csvData' = originalData
            /\ isDataCleaned' = FALSE
            /\ UNCHANGED alertMsg
    /\ UNCHANGED <<rows, csvHeaders, originalData, cleanedData,
                   cleaningContentShown, cleaningReport,
                   airQualityContentShown, airView, pending, nFiles, fileInfo,
                   statsContentShown, statsGrid>>

\* ------------------------------------------------------------------ air quality handlers

NoAirView == [rendered |-> FALSE]

NoSignal ==
    csvData.null \/ ~Includes(csvHeaders, "Resistencia_kOhms")

\* What one analysis renders: the overview cards (qualityAnalysis), the
\* chart points and the metric cards, with the arguments they were built of.
Rendered(by, interval, resistanceData, classified, qualityAnalysis, chart) ==
    [rendered        |-> TRUE,
     by              |-> by,
     interval        |-> interval,
     resistanceData  |-> resistanceData,
     classified      |-> classified,
     qualityAnalysis |-> qualityAnalysis,
     chart           |-> chart,
     metrics         |-> generateQualityMetrics(qualityAnalysis, classified)]

\* The calls of generateAirQualityAnalysis after resistanceData is read:
\* classifyAirQuality(resistanceData), generateQualityChart(resistanceData),
\* generateQualityMetrics(qualityAnalysis, resistanceData).
GenerateView(interval, resistanceData) ==
    Rendered("generate", interval, resistanceData, resistanceData,
             classifyAirQuality(resistanceData),
             processAltitudeData(rows, csvData, csvHeaders, resistanceData,
                                 interval))

Resistances(processedData) ==
    [i \in 1..Len(processedData) |-> processedData[i].resistance]

UpdateWith(interval, resistanceData, processedData, classified) ==
    Rendered("update", interval, resistanceData, classified,
             classifyAirQuality(classified), processedData)

\* The calls of updateAirQualityAnalysis after resistanceData is read:
\* classification and metrics take processedData.map(d => d.resistance).
UpdateView(interval, resistanceData, processedData) ==
    UpdateWith(interval, resistanceData, processedData,
               Resistances(processedData))

\* generateAirQualityAnalysis testing only that a dataset is loaded.
generateWithoutColumnTest(interval) ==
    IF csvData.null
    THEN /\ alertMsg' = "No se encontro la variable Resistencia_kOhms"
         /\ UNCHANGED airView
    ELSE /\ airView' = GenerateView(interval,
                           NumericColumn(rows, csvData, "Resistencia_kOhms"))
         /\ UNCHANGED alertMsg

\* generateAirQualityAnalysis(), `interval` the value of the select that
\* generateQualityChart reads.
generateAirQualityAnalysis(interval) ==
    IF NoSignal
    THEN /\ alertMsg' = "No se encontro la variable Resistencia_kOhms"
         /\ UNCHANGED airView
    ELSE /\ airView' = GenerateView(interval,
                           NumericColumn(rows, csvData, "Resistencia_kOhms"))
         /\ UNCHANGED alertMsg

UpdateFrom(interval, resistanceData) ==
    UpdateView(interval, resistanceData,
               processAltitudeData(rows, csvData, csvHeaders, resistanceData,
                                   interval))

\* updateAirQualityAnalysis()
updateAirQualityAnalysis ==
    /\ \E interval \in IntervalInputs :
          IF NoSignal
          THEN /\ alertMsg' = "No se encontro la variable Resistencia_kOhms"
               /\ UNCHANGED airView
          ELSE /\ airView' = UpdateFrom(interval,
                          NumericColumn(rows, csvData, "Resistencia_kOhms"))
               /\ UNCHANGED alertMsg
    /\ UNCHANGED <<rows, csvData, csvHeaders, originalData, cleanedData,
                   currentData, isDataCleaned, cleaningContentShown,
                   cleaningReport, airQualityContentShown, pending, nFiles, fileInfo,
                   statsContentShown, statsGrid>>

\* toggleAirQualityAnalysis(), the content hidden: analyse and show it.
toggleAirQualityAnalysisShow ==
    /\ ~airQualityContentShown
    /\ \E interval \in IntervalInputs : generateAirQualityAnalysis(interval)
    /\ airQualityContentShown' = TRUE
    /\ UNCHANGED <<rows, csvData, csvHeaders, originalData, cleanedData,
                   currentData, isDataCleaned, cleaningContentShown,
                   cleaningReport, pending, nFiles, fileInfo,
                   statsContentShown, statsGrid>>

\* toggleAirQualityAnalysis(), the content shown: hide it.
toggleAirQualityAnalysisHide ==
    /\ airQualityContentShown
    /\ airQualityContentShown' = FALSE
    /\ UNCHANGED <<rows, csvData, csvHeaders, originalData, cleanedData,
                   currentData, isDataCleaned, cleaningContentShown,
                   cleaningReport, airView, alertMsg, pending, nFiles, fileInfo,
                   statsContentShown, statsGrid>>

\* ------------------------------------------------------------------ session

\* The page after initializeApp: nothing loaded.
\* fileInfo before any selection (the section is hidden), and for the file
\* of a corpus, which is not one of Files.
NoFile == 0

CorpusFile == Len(Files) + 1

Init ==
    /\ statsContentShown = FALSE
    /\ statsGrid = <<>>
    /\ rows = <<>>
    /\ csvData = Null
    /\ csvHeaders = <<>>
    /\ originalData = Null
    /\ cleanedData = Null
    /\ currentData = Null
    /\ isDataCleaned = FALSE
    /\ cleaningContentShown = FALSE
    /\ cleaningReport = NoReport
    /\ airQualityContentShown = FALSE
    /\ airView = NoAirView
    /\ alertMsg = ""
    /\ pending = <<>>
    /\ nFiles = 0
    /\ fileInfo = NoFile

\* The state the complete callback leaves on a fresh page for a file whose
\* header is `fields` and whose parsed rows are `data`.
Loaded(fields, data) ==
    /\ statsContentShown = FALSE
    /\ statsGrid = <<>>
    /\ rows = data
    /\ csvData = Arr([i \in 1..Len(data) |-> i])
    /\ csvHeaders = fields
    /\ originalData = Arr([i \in 1..Len(data) |-> i])
    /\ currentData = Arr([i \in 1..Len(data) |-> i])
    /\ cleanedData = Null
    /\ isDataCleaned = FALSE
    /\ cleaningContentShown = FALSE
    /\ cleaningReport = NoReport
    /\ airQualityContentShown = FALSE
    /\ airView = NoAirView
    /\ alertMsg = ""
    /\ pending = <<>>
    /\ nFiles = 1
    /\ fileInfo = CorpusFile

\* The session: files are selected and parsed, the cleaning panel is
\* toggled, the current selection is switched.
Next ==
    \/ \E f \in 1..Len(Files) : processFile(f)
    \/ \E k \in 1..MaxFiles : parseComplete(k)
    \/ \E k \in 1..MaxFiles : parseError(k)
    \/ toggleDataCleaningOpen
    \/ toggleDataCleaningClose
    \/ proceedWithCleanedData
    \/ resetToOriginalData

Spec == Init /\ [][Next]_vars

\* ------------------------------------------------------------------ cleaning of any file

CleanFields == <<"Tiempo_ms", "Temperatura_C", "Altitud_m">>

\* Lines of the cleaning corpus: time keys that are equal, numerically
\* equal only, distinct or non-numeric; temperatures on, inside and outside the bounds
\* and non-numeric; altitudes inside and outside the bounds, non-numeric
\* and missing.
CleanLines ==
    { <<T100,   T85,    T600>>,
      <<T100p0, TNeg50, T600>>,
      <<T200,   T20>>,
      <<T100,   T86,    T600>>,
      <<T200,   TBad,   T600>>,
      <<T100,   T85,    TNeg501>>,
      <<T100p0, T86,    TBad>>,
      <<T200,   TNeg51, T571>>,
      <<T0,     T21,    T571>>,
      <<TBad,   T20,    T600>> }

\* The most rows of a file of the cleaning corpus.
MaxCleanRows == 3

\* Lines of the files without time column: within the bounds, short,
\* non-numeric and out of bounds.
NoTimeLines ==
    { <<T85,    T600>>,
      <<T20>>,
      <<T86,    TBad>>,
      <<TNeg51, T571>> }

\* The corpus holds the files with a time column and those without.
InitClean ==
    \E n \in 0..MaxCleanRows :
        \/ \E lines \in [1..n -> CleanLines] :
              Loaded(CleanFields, RowsFrom(CleanFields, lines))
        \/ \E lines \in [1..n -> NoTimeLines] :
              Loaded(Tail(CleanFields), RowsFrom(Tail(CleanFields), lines))

NextClean ==
    \/ toggleDataCleaningOpen
    \/ toggleDataCleaningClose

SpecClean == InitClean /\ [][NextClean]_vars

\* ------------------------------------------------------------------ air quality of any file

TInfinity == InfinityText

\* Lines of the air quality corpus (altitude, resistance): resistances on
\* and next to the tier thresholds, negative, infinite and non-numeric;
\* altitudes that are positive, 0 and non-numeric.
AirLines ==
    { <<T120, T300>>,
      <<T120, T299p5>>,
      <<T0,   T200>>,
      <<T150, T100>>,
      <<TBad, T50>>,
      <<T120, TBad>>,
      <<T250, T49p5>>,
      <<T30,  T0>>,
      <<T30,  TNeg5>>,
      <<T120, TInfinity>> }

\* The most rows of a file of the air quality corpus.
MaxAirRows == 2

\* The corpus holds every file with and without its altitude column.
InitAir ==
    \/ Init
    \/ \E n \in 0..MaxAirRows :
          \E lines \in [1..n -> AirLines] :
              \/ Loaded(AirFields, RowsFrom(AirFields, lines))
              \/ Loaded(<<"Resistencia_kOhms">>,
                        RowsFrom(<<"Resistencia_kOhms">>,
                                 [i \in 1..n |-> <<lines[i][2]>>]))
              \/ Loaded(<<"Altitud_m">>,
                        RowsFrom(<<"Altitud_m">>,
                                 [i \in 1..n |-> <<lines[i][1]>>]))

NextAir ==
    \/ toggleAirQualityAnalysisShow
    \/ toggleAirQualityAnalysisHide
    \/ updateAirQualityAnalysis

SpecAir == InitAir /\ [][NextAir]_vars

\* ------------------------------------------------------------------ statistics

\* [...values].sort((a, b) => a - b): stable insertion of each element
\* after the last one not greater than it.
RECURSIVE SortAscending(_, _, _)
SortAscending(seq, i, acc) ==
    IF i > Len(seq) THEN acc
    ELSE SortAscending(seq, i + 1,
             InsertAt(acc, seq[i],
                 Cardinality({j \in 1..Len(acc) : ~QGt(acc[j], seq[i])})))

\* values.reduce((acc, val) => acc + Math.pow(val - mean, 2), 0)
RECURSIVE SquaredDeviations(_, _, _)
SquaredDeviations(values, mean, i) ==
    IF i > Len(values) THEN Q(0)
    ELSE QAdd(QMul(QSub(values[i], mean), QSub(values[i], mean)),
              SquaredDeviations(values, mean, i + 1))

\* Math.sqrt(v): the non-negative root of the radicand v, NaN when v is NaN
\* or negative.  The root is kept as its radicand.
MathSqrt(v) ==
    IF isNaN(v) \/ QLt(v, Q(0)) THEN [nan |-> TRUE, radicand |-> NaN]
    ELSE [nan |-> FALSE, radicand |-> v]

\* calculateStats with the median at index floor((n - 1) / 2).
StatsOfLowerMedian(values, sorted, mean) ==
    [min    |-> sorted[1],
     max    |-> sorted[Len(sorted)],
     mean   |-> mean,
     median |-> sorted[((Len(sorted) - 1) \div 2) + 1],
     stdDev |-> MathSqrt(QDivInt(SquaredDeviations(values, mean, 1),
                                 Len(values)))]

\* The object calculateStats returns, from the sorted copy and the mean.
StatsOf(values, sorted, mean) ==
    [min    |-> sorted[1],
     max    |-> sorted[Len(sorted)],
     mean   |-> mean,
     median |-> sorted[(Len(sorted) \div 2) + 1],
     stdDev |-> MathSqrt(QDivInt(SquaredDeviations(values, mean, 1),
                                 Len(values)))]

\* The sort statement sorting the values array itself, not a copy.
SortedInPlace(values) ==
    [sorted |-> SortAscending(values, 1, <<>>),
     values |-> SortAscending(values, 1, <<>>)]

\* const sorted = [...values].sort((a, b) => a - b): the two arrays after
\* the statement, the sorted copy and the caller's array.
SortedCopy(values) ==
    [sorted |-> SortAscending(values, 1, <<>>),
     values |-> values]

\* The rest of calculateStats, on the arrays the sort statement left: the
\* returned object and the caller's array.
StatsCall(arrays) ==
    [stats  |-> StatsOf(arrays.values, arrays.sorted,
                        QDivInt(SumQ(arrays.values, 1), Len(arrays.values))),
     values |-> arrays.values]

\* calculateStats(values), for a non-empty array of numbers: the returned
\* object together with the caller's array after the call.
calculateStats(values) == StatsCall(SortedCopy(values))

\* One stat card, of the call of calculateStats for the header's values:
\* the header, the stats object, the values array after the call and the
\* number of points (values.length).
StatCardOf(header, call) ==
    [header |-> header,
     values |-> call.values,
     stats  |-> call.stats,
     points |-> Len(call.values)]

StatCard(header, values) == StatCardOf(header, calculateStats(values))

\* The numeric values of each header's column.
ColumnValues(heap, data, headers) ==
    [h \in 1..Len(headers) |->
        [header |-> headers[h],
         values |-> NumericColumn(heap, data, headers[h])]]

StatCards(columns) ==
    [c \in 1..Len(columns) |-> StatCard(columns[c].header, columns[c].values)]

\* generateStatistics(): one card per header with at least one numeric value.
generateStatistics ==
    statsGrid' = StatCards(SelectSeq(ColumnValues(rows, csvData, csvHeaders),
                                     LAMBDA c : Len(c.values) > 0))

\* toggleStats(), the content hidden: generate the statistics and show it.
toggleStatsShow ==
    /\ ~statsContentShown
    /\ generateStatistics
    /\ statsContentShown' = TRUE
    /\ UNCHANGED <<rows, csvData, csvHeaders, originalData, cleanedData,
                   currentData, isDataCleaned, cleaningContentShown,
                   cleaningReport, airQualityContentShown, airView, alertMsg,
                   pending, nFiles, fileInfo>>

\* toggleStats(), the content shown: hide it.
toggleStatsHide ==
    /\ statsContentShown
    /\ statsContentShown' = FALSE
    /\ UNCHANGED <<statsGrid, rows, csvData, csvHeaders, originalData,
                   cleanedData, currentData, isDataCleaned,
                   cleaningContentShown, cleaningReport,
                   airQualityContentShown, airView, alertMsg, pending, nFiles, fileInfo>>

\* The statistics corpus: one column of cells that are negative, integer,
\* fractional, non-numeric or "Infinity".
StatFields == <<"Temperatura_C">>

StatLines ==
    { <<T20>>, <<T21>>, <<TNeg5>>, <<T49p5>>, <<T100>>, <<TBad>>,
      <<TInfinity>> }

MaxStatRows == 4

InitStats ==
    \E n \in 0..MaxStatRows :
        \E lines \in [1..n -> StatLines] :
            Loaded(StatFields, RowsFrom(StatFields, lines))

NextStats ==
    \/ toggleStatsShow
    \/ toggleStatsHide

SpecStats == InitStats /\ [][NextStats]_vars

\* ------------------------------------------------------------------ properties

\* The step of toggleDataCleaning that runs cleanData on loaded data.
CleanDataStep ==
    ~cleaningContentShown /\ cleaningContentShown' /\ ~originalData.null

\* The raw time field of the row at position i of originalData.
TimeAt(i) == Field(rows[originalData.ids[i]], "Tiempo_ms")

\* The positions of originalData whose time field equals that of an
\* earlier position.
LaterOccurrences ==
    {i \in 1..Len(originalData.ids) : \E j \in 1..(i - 1) : TimeAt(j) = TimeAt(i)}

\* C1: after every cleanData on a loaded dataset, the rows of the cleaned
\* dataset plus the duplicate entries plus the outlier entries number the
\* rows of the original dataset.
C1_CountsAddUp ==
    cleaningReport.shown =>
        /\ cleaningReport.originalCount = Len(originalData.ids)
        /\ cleaningReport.cleanedCount = Len(cleanedData.ids)
        /\ Len(cleanedData.ids) + Len(cleaningReport.duplicatesRemoved)
             + Len(cleaningReport.outliersRemoved) = Len(originalData.ids)

\* A run that kept a row, dropped a duplicate and dropped an outlier.
C1_Witness ==
    /\ cleaningReport.shown
    /\ Len(cleanedData.ids) >= 1
    /\ Len(cleaningReport.duplicatesRemoved) >= 1
    /\ Len(cleaningReport.outliersRemoved) >= 1

\* C2: every row of the original dataset keeps the field values produced at
\* parse time, whatever sequence of load, cleanData, proceedWithCleanedData
\* and resetToOriginalData has run: the rows reachable through originalData
\* are the parsed rows of one of the files.
C2_OriginalNeverMutated ==
    originalData.null
    \/ \E f \in 1..Len(Files) :
          Files[f].readable /\ RowsOf(rows, originalData) = Files[f].data

\* C3: re-running cleanData on the same loaded file with the same
\* baseAltitude yields the same report and the same retained rows with the
\* same field values as the run before it.
C3_RerunSameResult ==
    [][(CleanDataStep /\ cleaningReport.shown
          /\ cleaningReport'.baseAltitude = cleaningReport.baseAltitude)
       => /\ cleaningReport' = cleaningReport
          /\ RowsOf(rows', cleanedData') = RowsOf(rows, cleanedData)]_vars

\* The fields of a row other than its altitude.
OtherFields(row) == [c \in DOMAIN row \ {"Altitud_m"} |-> row[c]]

\* C4: after cleanData runs with baseline b on a freshly loaded dataset,
\* every retained row with an altitude field has Altitud_m equal to its
\* parsed raw altitude minus b (600 and 571 give 29) and no other field of
\* a retained row differs from the parsed row.
C4_AltitudeCorrected ==
    [][(CleanDataStep /\ ~cleaningReport.shown)
       => \A k \in 1..Len(cleanedData'.ids) :
             LET old == rows[cleanedData'.ids[k]]
                 new == rows'[cleanedData'.ids[k]]
                 b   == cleaningReport'.baseAltitude
             IN  /\ OtherFields(new) = OtherFields(old)
                 /\ DOMAIN new = DOMAIN old
                 /\ Field(old, "Altitud_m").t = "undef" => new = old
                 /\ Field(old, "Altitud_m").t # "undef" =>
                       /\ new["Altitud_m"].t = "num"
                       /\ parseFloat(old["Altitud_m"]) =
                              QAdd(new["Altitud_m"].q, b)
                 /\ (old["Altitud_m"] = Str(T600) /\ b = Q(571)) =>
                       new["Altitud_m"] = Num(Q(29))]_vars

\* The first run on a file with a row of raw altitude 600, baseline 571.
C4_Witness ==
    /\ cleaningReport.shown
    /\ cleaningReport.baseAltitude = Q(571)
    /\ \E k \in 1..Len(cleanedData.ids) :
          rows[cleanedData.ids[k]]["Altitud_m"] = Num(Q(29))
    /\ \E k \in 1..Len(cleanedData.ids) :
          Field(rows[cleanedData.ids[k]], "Altitud_m").t = "undef"

\* C5: duplicate removal keeps, for each distinct raw Tiempo_ms value
\* (compared exactly, without numeric coercion), the row of smallest
\* original index, and for every later row with that value drops it and
\* records one entry with its original index and its time value, in
\* original order.
C5_FirstOccurrenceKept ==
    cleaningReport.shown =>
        LET d == cleaningReport.duplicatesRemoved
        IN  /\ Len(d) = Cardinality(LaterOccurrences)
            /\ \A k \in 1..Len(d) :
                  /\ d[k].index + 1 \in LaterOccurrences
                  /\ d[k].time = TimeAt(d[k].index + 1)
            /\ \A k \in 1..(Len(d) - 1) : d[k].index < d[k + 1].index
            /\ \A i \in LaterOccurrences :
                  originalData.ids[i] \notin Range(cleanedData.ids)

\* A run that dropped a duplicate and kept two rows whose time texts differ
\* but parse to the same number.
C5_Witness ==
    /\ cleaningReport.shown
    /\ Len(cleaningReport.duplicatesRemoved) >= 1
    /\ \E i, j \in 1..Len(cleanedData.ids) :
          /\ i # j
          /\ rows[cleanedData.ids[i]]["Tiempo_ms"]
               # rows[cleanedData.ids[j]]["Tiempo_ms"]
          /\ parseFloat(rows[cleanedData.ids[i]]["Tiempo_ms"])
               = parseFloat(rows[cleanedData.ids[j]]["Tiempo_ms"])

\* Every bounded column present in the row parses as a number that lies
\* within its inclusive bounds.
WithinAllBounds(row) ==
    \A k \in 1..Len(physicalRanges) :
        \/ Field(row, physicalRanges[k].column).t = "undef"
        \/ LET v == parseFloat(Field(row, physicalRanges[k].column))
           IN  /\ ~isNaN(v)
               /\ QGe(v, Q(physicalRanges[k].min))
               /\ QGe(Q(physicalRanges[k].max), v)

\* C6: a row that survived duplicate removal is retained by the range
\* filter if and only if every bounded column present in it parses as a
\* number within its inclusive bounds; absent columns and columns outside
\* the bound table never cause a removal.
C6_RetainedIffWithinBounds ==
    [][CleanDataStep
       => \A i \in 1..Len(originalData.ids) :
             i \notin LaterOccurrences =>
                 (originalData.ids[i] \in Range(cleanedData'.ids)
                    <=> WithinAllBounds(rows[originalData.ids[i]]))]_vars

\* A run that retained rows with the temperature on each bound, a row
\* without altitude and a row with a non-numeric time, and dropped a row.
C6_Witness ==
    /\ cleaningReport.shown
    /\ Len(cleaningReport.outliersRemoved) >= 1
    /\ \E i, j \in 1..Len(cleanedData.ids) :
          /\ rows[cleanedData.ids[i]]["Temperatura_C"] = Str(T85)
          /\ rows[cleanedData.ids[j]]["Temperatura_C"] = Str(TNeg50)

\* The number of members of all five tiers of a classification.
TierTotal(qualityAnalysis) ==
    Len(qualityAnalysis["excellent"]) + Len(qualityAnalysis["good"])
      + Len(qualityAnalysis["moderate"]) + Len(qualityAnalysis["poor"])
      + Len(qualityAnalysis["veryPoor"])

\* The tiers of a classification that hold the value v.
TiersHolding(qualityAnalysis, v) ==
    {key \in Range(TierKeys) : Includes(qualityAnalysis[key], v)}

\* The tier the threshold table assigns to a value v >= 0.
TableTier(v) ==
    IF QGe(v, Q(300)) THEN "excellent"
    ELSE IF QGe(v, Q(200)) /\ QLt(v, Q(300)) THEN "good"
    ELSE IF QGe(v, Q(100)) /\ QLt(v, Q(200)) THEN "moderate"
    ELSE IF QGe(v, Q(50)) /\ QLt(v, Q(100)) THEN "poor"
    ELSE "veryPoor"

\* C7: classifyAirQuality partitions its input by the fixed thresholds:
\* every finite value is in exactly one tier, the tier sizes sum to the
\* count of finite values of the input, and a value v >= 0 is in excellent
\* iff v >= 300, good iff 200 <= v < 300, moderate iff 100 <= v < 200, poor
\* iff 50 <= v < 100, veryPoor iff 0 <= v < 50.
C7_TiersPartitionFinite ==
    airView.rendered =>
        /\ TierTotal(airView.qualityAnalysis)
             = Len(SelectSeq(airView.classified, isFinite))
        /\ \A i \in 1..Len(airView.classified) :
              LET v == airView.classified[i]
              IN  /\ isFinite(v) =>
                        Cardinality(TiersHolding(airView.qualityAnalysis, v)) = 1
                  /\ (isFinite(v) /\ QGe(v, Q(0))) =>
                        TiersHolding(airView.qualityAnalysis, v) = {TableTier(v)}

\* C8: a negative or non-finite value passed to classifyAirQuality is in
\* none of the five tiers; a negative value is never in veryPoor.
C8_NegativeNonFiniteExcluded ==
    airView.rendered =>
        \A key \in Range(TierKeys) :
            \A j \in 1..Len(airView.qualityAnalysis[key]) :
                /\ isFinite(airView.qualityAnalysis[key][j])
                /\ QGe(airView.qualityAnalysis[key][j], Q(0))

\* The largest member count of the tiers of a classification.
MaxTierCount(qualityAnalysis) ==
    CHOOSE n \in 0..TierTotal(qualityAnalysis) :
        /\ \E k \in 1..Len(TierKeys) : Len(qualityAnalysis[TierKeys[k]]) = n
        /\ \A k \in 1..Len(TierKeys) : Len(qualityAnalysis[TierKeys[k]]) <= n

\* The first tier, in the order of TierKeys, with the largest member count.
FirstLargestTier(qualityAnalysis) ==
    TierKeys[CHOOSE k \in 1..Len(TierKeys) :
        /\ Len(qualityAnalysis[TierKeys[k]]) = MaxTierCount(qualityAnalysis)
        /\ \A j \in 1..(k - 1) :
              Len(qualityAnalysis[TierKeys[j]]) < MaxTierCount(qualityAnalysis)]

\* C9: the predominant tier of generateQualityMetrics is a tier with the
\* largest member count, the first of them in the order excellent, good,
\* moderate, poor, veryPoor when several share that count (stated here for
\* analyses of at least one reading).
C9_PredominantFirstOnTie ==
    (airView.rendered /\ airView.metrics.totalData > 0) =>
        airView.metrics.predominantQuality
            = FirstLargestTier(airView.qualityAnalysis)

\* The positions of csvData whose resistance field parses as a number, in
\* row order: the k-th reading comes from the row at the k-th of them.
ReadingRows ==
    SelectSeq([i \in 1..Len(csvData.ids) |-> i],
              LAMBDA i : ~isNaN(parseFloat(Field(rows[csvData.ids[i]],
                                                 "Resistencia_kOhms"))))

\* C10: processAltitudeData with interval "all" returns one pair per
\* resistance reading, in row order, and the altitude of each pair is the
\* altitude of the row its reading came from, whenever that row's altitude
\* is numeric, also when other rows have a non-numeric resistance or
\* altitude.
C10_AllPairsOwnAltitude ==
    (airView.rendered /\ airView.interval = AllText
        /\ Includes(csvHeaders, "Altitud_m")) =>
        /\ Len(airView.chart) = Len(ReadingRows)
        /\ \A k \in 1..Len(airView.chart) :
              LET row == rows[csvData.ids[ReadingRows[k]]]
              IN  /\ airView.chart[k].resistance
                        = parseFloat(Field(row, "Resistencia_kOhms"))
                  /\ ~isNaN(parseFloat(Field(row, "Altitud_m"))) =>
                        airView.chart[k].altitude
                            = parseFloat(Field(row, "Altitud_m"))

\* The altitude and the resistance of the row the k-th reading came from.
OwnAltitude(k) ==
    parseFloat(Field(rows[csvData.ids[ReadingRows[k]]], "Altitud_m"))

OwnResistance(k) ==
    parseFloat(Field(rows[csvData.ids[ReadingRows[k]]], "Resistencia_kOhms"))

\* floor(a / w) * w for the altitude a of the k-th reading's own row.
OwnBucket(k, w) == QMulInt(QFloor(QDivInt(OwnAltitude(k), w)), w)

\* The readings of the bucket g, in row order.
BucketMembers(g, w) ==
    SelectSeq([k \in 1..Len(ReadingRows) |-> k], LAMBDA k : OwnBucket(k, w) = g)

\* The mean altitude, mean resistance and member count of the readings ms.
BucketSummary(ms) ==
    [altitude   |-> QDivInt(SumQ([j \in 1..Len(ms) |-> OwnAltitude(ms[j])], 1),
                            Len(ms)),
     resistance |-> QDivInt(SumQ([j \in 1..Len(ms) |-> OwnResistance(ms[j])], 1),
                            Len(ms)),
     count      |-> Len(ms)]

RECURSIVE CountSum(_, _)
CountSum(chart, i) ==
    IF i > Len(chart) THEN 0 ELSE chart[i].count + CountSum(chart, i + 1)

\* C11: processAltitudeData with a positive bucket width w places every
\* reading in the bucket floor(a / w) * w of its own row's altitude a,
\* returns for each non-empty bucket the mean altitude, mean resistance and
\* member count of exactly those readings (counts summing to the number of
\* readings), sorted ascending by altitude.  Stated for datasets in which
\* every reading's row has a numeric altitude.
C11_BucketsOfOwnAltitude ==
    (/\ airView.rendered
     /\ airView.interval # AllText
     /\ Includes(csvHeaders, "Altitud_m")
     /\ \A k \in 1..Len(ReadingRows) : ~isNaN(OwnAltitude(k))) =>
        LET w == parseInt(airView.interval).n
        IN  /\ Len(airView.chart)
                 = Cardinality({OwnBucket(k, w) : k \in 1..Len(ReadingRows)})
            /\ CountSum(airView.chart, 1) = Len(ReadingRows)
            /\ \A k \in 1..Len(ReadingRows) :
                  \E b \in 1..Len(airView.chart) :
                      airView.chart[b]
                          = BucketSummary(BucketMembers(OwnBucket(k, w), w))
            /\ \A b \in 1..(Len(airView.chart) - 1) :
                  ~QGt(airView.chart[b].altitude, airView.chart[b + 1].altitude)

\* The element at 1-based position p of the ascending-sorted values: the
\* value with fewer than p values below it and at least p values not above.
SortedAt(values, p) ==
    CHOOSE v \in Range(values) :
        /\ Cardinality({i \in 1..Len(values) : QLt(values[i], v)}) < p
        /\ Cardinality({i \in 1..Len(values) : ~QGt(values[i], v)}) >= p

\* C12 as stated: for an even-length non-empty input the median of
\* calculateStats is the lower-middle element of the ascending-sorted
\* sequence, the smaller of the two central elements.
C12_MedianLowerMiddle ==
    \A c \in 1..Len(statsGrid) :
        Len(statsGrid[c].values) % 2 = 0 =>
            statsGrid[c].stats.median
                = SortedAt(statsGrid[c].values, Len(statsGrid[c].values) \div 2)

\* C12 amended: for an even-length non-empty input the median of
\* calculateStats is the upper-middle element of the ascending-sorted
\* sequence, the larger of the two central elements.
C12_MedianUpperMiddle ==
    \A c \in 1..Len(statsGrid) :
        Len(statsGrid[c].values) % 2 = 0 =>
            statsGrid[c].stats.median
                = SortedAt(statsGrid[c].values,
                           (Len(statsGrid[c].values) \div 2) + 1)

\* Statistics of an even number of values whose two central elements differ.
C12_Witness ==
    \E c \in 1..Len(statsGrid) :
        /\ Len(statsGrid[c].values) = 4
        /\ SortedAt(statsGrid[c].values, 2) # SortedAt(statsGrid[c].values, 3)

\* The squared deviations of the values from the mean, summed.
DeviationSum(values, mean) ==
    SumQ([i \in 1..Len(values) |->
             QMul(QSub(values[i], mean), QSub(values[i], mean))], 1)

\* For one stat card: min <= median <= max, min and max the smallest and
\* largest values, the standard deviation a number >= 0 that is the root of
\* the squared deviations from the mean divided by n.
StatsWellFormed(card) ==
    /\ QGe(card.stats.median, card.stats.min)
    /\ QGe(card.stats.max, card.stats.median)
    /\ card.stats.min = SortedAt(card.values, 1)
    /\ card.stats.max = SortedAt(card.values, Len(card.values))
    /\ ~card.stats.stdDev.nan
    /\ QGe(card.stats.stdDev.radicand, Q(0))
    /\ card.stats.stdDev.radicand
         = QDivInt(DeviationSum(card.values,
                                QDivInt(SumQ(card.values, 1), Len(card.values))),
                   Len(card.values))

\* C13: for every non-empty numeric sequence calculateStats returns
\* min <= median <= max, min and max the smallest and largest elements, and
\* a standard deviation >= 0 that is the population deviation (divided by
\* n, not n - 1).
C13_StatsOrderedDeviationPopulation ==
    \A c \in 1..Len(statsGrid) : StatsWellFormed(statsGrid[c])

\* C14: an operation invoked before its input exists is a no-op on the
\* dataset state: cleanData with no original dataset produces no report and
\* leaves cleanedData and isDataCleaned unchanged, proceedWithCleanedData
\* with no cleaned dataset leaves currentData and csvData unchanged,
\* resetToOriginalData with no original dataset leaves currentData, csvData
\* and isDataCleaned unchanged.
C14_MissingInputNoOp ==
    [][/\ (toggleDataCleaningOpen /\ originalData.null) =>
             /\ ~cleaningReport'.shown
             /\ cleaningReport' = cleaningReport
             /\ cleanedData' = cleanedData
             /\ isDataCleaned' = isDataCleaned
             /\ rows' = rows
       /\ (proceedWithCleanedData /\ cleanedData.null) =>
             /\ currentData' = currentData
             /\ csvData' = csvData
             /\ rows' = rows
       /\ (resetToOriginalData /\ originalData.null) =>
             /\ currentData' = currentData
             /\ csvData' = csvData
             /\ isDataCleaned' = isDataCleaned
             /\ rows' = rows]_vars

\* cleanData has run with no original dataset and reported it.
C14_Witness ==
    /\ originalData.null
    /\ cleaningContentShown
    /\ alertMsg = "No hay datos para limpiar"

\* C15: once a file has been loaded, after any sequence of cleanData,
\* proceedWithCleanedData and resetToOriginalData the current selection
\* holds the same rows as the original dataset or as the most recently
\* computed cleaned dataset, never a third dataset.
C15_CurrentIsOriginalOrCleaned ==
    ~originalData.null =>
        \/ currentData.ids = originalData.ids
        \/ ~cleanedData.null /\ currentData.ids = cleanedData.ids

\* C16: deduplication is idempotent: no two rows of a cleaned dataset have
\* the same Tiempo_ms value, so the duplicate filter applied to the cleaned
\* rows removes none of them.
C16_DedupIdempotent ==
    cleaningReport.shown =>
        /\ \A i, j \in 1..Len(cleanedData.ids) :
              i # j => Field(rows[cleanedData.ids[i]], "Tiempo_ms")
                         # Field(rows[cleanedData.ids[j]], "Tiempo_ms")
        /\ DedupScan(rows, cleanedData.ids, 1, {}, <<>>, <<>>)
             = [data |-> cleanedData.ids, duplicatesRemoved |-> <<>>]

\* A run that removed a duplicate and retained at least two rows.
C16_Witness ==
    /\ cleaningReport.shown
    /\ Len(cleaningReport.duplicatesRemoved) >= 1
    /\ Len(cleanedData.ids) >= 2

\* The baseline a caller supplies with the input text: its number when the
\* text parses as one, the default otherwise.
SuppliedBaseline(text) ==
    IF isNaN(ParseFloatText(text)) THEN Q(DefaultBaseAltitude)
    ELSE ParseFloatText(text)

\* C17: cleanData subtracts the baseline supplied by the caller whenever a
\* numeric value is supplied, the value 0 included, and uses the default
\* 571 only when no numeric value is supplied.
C17_SuppliedBaselineUsed ==
    [][\A text \in BaseAltitudeInputs :
          (~originalData.null /\ ~cleaningReport.shown /\ cleanData(text)) =>
              /\ cleaningReport'.baseAltitude = SuppliedBaseline(text)
              /\ \A k \in 1..Len(cleanedData'.ids) :
                    Field(rows[cleanedData'.ids[k]], "Altitud_m").t # "undef" =>
                        rows'[cleanedData'.ids[k]]["Altitud_m"]
                            = Num(QSub(parseFloat(rows[cleanedData'.ids[k]]["Altitud_m"]),
                                       SuppliedBaseline(text)))]_vars

\* C18: the altitude aggregation feeds only the chart: for every interval
\* the classification and the summary of updateAirQualityAnalysis are
\* computed over the individual numeric resistance readings of the current
\* dataset, so the tier sizes sum to the number of readings, and no row of
\* the current, original or cleaned dataset changes.
C18_AggregationFeedsChartOnly ==
    [][(updateAirQualityAnalysis /\ airView'.rendered) =>
          /\ airView'.classified
               = NumericColumn(rows, csvData, "Resistencia_kOhms")
          /\ airView'.qualityAnalysis
               = classifyAirQuality(
                     NumericColumn(rows, csvData, "Resistencia_kOhms"))
          /\ TierTotal(airView'.qualityAnalysis)
               = Len(NumericColumn(rows, csvData, "Resistencia_kOhms"))
          /\ airView'.metrics.totalData
               = Len(NumericColumn(rows, csvData, "Resistencia_kOhms"))
          /\ rows' = rows
          /\ <<csvData, currentData, originalData, cleanedData>>'
               = <<csvData, currentData, originalData, cleanedData>>]_vars

\* C19: when no dataset is loaded or the headers lack Resistencia_kOhms,
\* generateAirQualityAnalysis and updateAirQualityAnalysis report the
\* missing signal and return without classifying, aggregating or producing
\* a summary.
C19_NoSignalDeclines ==
    [][((csvData.null \/ ~Includes(csvHeaders, "Resistencia_kOhms"))
          /\ (toggleAirQualityAnalysisShow \/ updateAirQualityAnalysis)) =>
          /\ alertMsg' = "No se encontro la variable Resistencia_kOhms"
          /\ airView' = airView
          /\ ~airView'.rendered]_vars

\* The analysis was requested on a loaded file without the resistance
\* column and declined.
C19_Witness ==
    /\ ~csvData.null
    /\ Len(csvData.ids) > 0
    /\ ~Includes(csvHeaders, "Resistencia_kOhms")
    /\ airQualityContentShown
    /\ alertMsg = "No se encontro la variable Resistencia_kOhms"
    /\ ~airView.rendered

\* C20: downstream components always consume the current selection: the
\* dataset read by statistics, charting and air-quality analysis (csvData)
\* is the same dataset as currentData, which holds the original rows after
\* a load or resetToOriginalData and is the cleaned dataset after
\* proceedWithCleanedData.
C20_CsvDataIsCurrent ==
    [][/\ csvData = currentData
       /\ csvData' = currentData'
       /\ (\E k \in 1..MaxFiles : parseComplete(k)) =>
             currentData'.ids = originalData'.ids
       /\ (resetToOriginalData /\ ~originalData.null) =>
             currentData' = originalData'
       /\ (proceedWithCleanedData /\ ~cleanedData.null) =>
             currentData' = cleanedData']_vars

\* The cleaned dataset, shorter than the original, is the current selection
\* and the dataset the downstream components read.
C20_Witness ==
    /\ ~cleanedData.null
    /\ csvData = cleanedData
    /\ currentData = cleanedData
    /\ Len(cleanedData.ids) < Len(originalData.ids)
    /\ Len(cleanedData.ids) > 0

\* The dataset variables of the page.
Datasets == <<csvData, csvHeaders, originalData, currentData, cleanedData>>

\* C21: ingestion is all-or-nothing: when processFile rejects a file by
\* its name or the parser reports a fatal error, none of csvData,
\* csvHeaders, originalData, currentData and cleanedData changes (nor any
\* row); when the parser completes with warnings only, the dataset is
\* loaded.
C21_IngestionAllOrNothing ==
    [][/\ \A f \in 1..Len(Files) :
             (processFile(f) /\ ~endsWith(toLowerCase(Files[f].name), DotCsv))
                 => (Datasets' = Datasets /\ rows' = rows)
       /\ (\E k \in 1..MaxFiles : parseError(k))
             => (Datasets' = Datasets /\ rows' = rows)
       /\ \A k \in 1..Len(pending) :
             (parseComplete(k) /\ Files[pending[k]].errors > 0) =>
                 /\ ~csvData'.null
                 /\ RowsOf(rows', csvData') = Files[pending[k]].data
                 /\ RowsOf(rows', originalData') = Files[pending[k]].data
                 /\ currentData' = csvData'
                 /\ csvHeaders' = Files[pending[k]].fields]_vars

\* The file with malformed lines is loaded and a later file was rejected by
\* its name.
C21_Witness ==
    /\ ~csvData.null
    /\ \E f \in 1..Len(Files) :
          /\ Files[f].errors > 0
          /\ RowsOf(rows, csvData) = Files[f].data
    /\ alertMsg = "Por favor selecciona un archivo CSV valido"

\* C22: the median of calculateStats for a non-empty input of length n is
\* the element at 0-based index floor(n/2) of the ascending-sorted copy; it
\* is an element of the input, never an average of two, and the input
\* sequence is left in its original order.
C22_MedianIndexInputKept ==
    \A c \in 1..Len(statsGrid) :
        /\ statsGrid[c].stats.median
             = SortedAt(statsGrid[c].values,
                        (Len(statsGrid[c].values) \div 2) + 1)
        /\ \E i \in 1..Len(statsGrid[c].values) :
              statsGrid[c].stats.median = statsGrid[c].values[i]
        /\ statsGrid[c].values
             = NumericColumn(rows, csvData, statsGrid[c].header)

\* Statistics of values that were not in ascending order, of even and of
\* odd length.
C22_Witness ==
    \E c \in 1..Len(statsGrid) :
        /\ Len(statsGrid[c].values) >= 3
        /\ QGt(statsGrid[c].values[1], statsGrid[c].values[2])
        /\ QGt(statsGrid[c].values[2], statsGrid[c].values[3])

\* The positions of originalData, ascending, of the rows the range filter
\* dropped: no later occurrence of a time value and not retained.
OutlierPositions ==
    SelectSeq([i \in 1..Len(originalData.ids) |-> i],
              LAMBDA i : /\ i \notin LaterOccurrences
                         /\ originalData.ids[i] \notin Range(cleanedData.ids))

\* C23: every outlier entry recorded by cleanData carries the index the
\* dropped row has in the original dataset, also when duplicate rows were
\* removed before it.
C23_OutlierIndexOriginal ==
    cleaningReport.shown =>
        /\ Len(cleaningReport.outliersRemoved) = Len(OutlierPositions)
        /\ \A k \in 1..Len(cleaningReport.outliersRemoved) :
              cleaningReport.outliersRemoved[k].index + 1 = OutlierPositions[k]

\* The bounded column k is present in the row and does not parse as a
\* number within its bounds.
ViolatesBound(row, k) ==
    /\ Field(row, physicalRanges[k].column).t # "undef"
    /\ LET v == parseFloat(Field(row, physicalRanges[k].column))
       IN  ~(/\ ~isNaN(v)
             /\ QGe(v, Q(physicalRanges[k].min))
             /\ QGe(Q(physicalRanges[k].max), v))

\* The first bound, in table order, that the row violates.
FirstViolatedBound(row) ==
    physicalRanges[CHOOSE k \in 1..Len(physicalRanges) :
        /\ ViolatesBound(row, k)
        /\ \A j \in 1..(k - 1) : ~ViolatesBound(row, j)]

\* C24: each row dropped by the physical-range filter produces exactly one
\* outlier entry, naming the first violating column in the order of the
\* bound table with that column's bounds; a row dropped as a duplicate
\* produces no outlier entry.
C24_OneEntryFirstColumn ==
    cleaningReport.shown =>
        /\ Len(cleaningReport.outliersRemoved) = Len(OutlierPositions)
        /\ \A k \in 1..Len(OutlierPositions) :
              LET e == cleaningReport.outliersRemoved[k]
                  b == FirstViolatedBound(
                           rows[originalData.ids[OutlierPositions[k]]])
              IN  /\ e.column = b.column
                  /\ e.minRange = b.min
                  /\ e.maxRange = b.max

\* A run that dropped a row violating two bounds and dropped as a duplicate
\* a row that violates a bound.
C24_Witness ==
    /\ cleaningReport.shown
    /\ \E k \in 1..Len(OutlierPositions) :
          Cardinality({j \in 1..Len(physicalRanges) :
              ViolatesBound(rows[originalData.ids[OutlierPositions[k]]], j)}) >= 2
    /\ \E i \in LaterOccurrences :
          \E j \in 1..Len(physicalRanges) :
              ViolatesBound(rows[originalData.ids[i]], j)

\* Every row of csvData has a numeric altitude and a numeric resistance.
AllRowsNumeric ==
    \A i \in 1..Len(csvData.ids) :
        /\ ~isNaN(parseFloat(Field(rows[csvData.ids[i]], "Altitud_m")))
        /\ ~isNaN(parseFloat(Field(rows[csvData.ids[i]], "Resistencia_kOhms")))

\* C25: with interval "all" the ordinal index of a reading is its altitude
\* coordinate only when the dataset has no altitude column; when the column
\* exists (and every row is numeric, so readings and altitudes are aligned)
\* the coordinate of each reading is its own row's altitude, also when that
\* altitude is exactly 0.
C25_IndexOnlyWithoutColumn ==
    (airView.rendered /\ airView.interval = AllText) =>
        /\ ~Includes(csvHeaders, "Altitud_m") =>
              \A k \in 1..Len(airView.chart) :
                  airView.chart[k].altitude = Q(k - 1)
        /\ (Includes(csvHeaders, "Altitud_m") /\ AllRowsNumeric) =>
              \A k \in 1..Len(airView.chart) :
                  airView.chart[k].altitude
                      = parseFloat(Field(rows[csvData.ids[k]], "Altitud_m"))

\* The row sequence of a dataset with every field of every row, read from
\* the heap h.
Contents(h, d) ==
    IF d.null THEN <<>> ELSE [i \in 1..Len(d.ids) |-> h[d.ids[i]]]

\* C26: proceedWithCleanedData and resetToOriginalData only change which
\* dataset currentData and csvData refer to (and the isDataCleaned flag):
\* the row sequence and every row field of the original and of the cleaned
\* dataset are the same after the step, and the selection is one of the two.
C26_SwitchIsPureSwap ==
    [][(proceedWithCleanedData \/ resetToOriginalData) =>
          /\ originalData' = originalData
          /\ cleanedData' = cleanedData
          /\ Contents(rows', originalData') = Contents(rows, originalData)
          /\ Contents(rows', cleanedData') = Contents(rows, cleanedData)
          /\ csvHeaders' = csvHeaders
          /\ currentData' = csvData'
          /\ \/ csvData' = csvData
             \/ csvData' = originalData
             \/ csvData' = cleanedData]_vars

\* The selection was switched to a cleaned dataset that lacks rows of the
\* original one.
C26_Witness ==
    /\ ~cleanedData.null
    /\ ~originalData.null
    /\ csvData = cleanedData
    /\ currentData = cleanedData
    /\ Len(cleanedData.ids) < Len(originalData.ids)

\* The rows of the dataset d are rows of the loaded original dataset.
RowsOfLoaded(d) ==
    d.null \/ (~originalData.null /\ Range(d.ids) \subseteq Range(originalData.ids))

\* C27: a non-null cleanedData was derived from the currently loaded
\* original dataset, and so is the current selection: after a new file is
\* loaded, proceedWithCleanedData cannot select a cleaned dataset computed
\* from a file loaded before.
C27_CleanedFromLoadedFile ==
    /\ RowsOfLoaded(cleanedData)
    /\ RowsOfLoaded(currentData)
    /\ RowsOfLoaded(csvData)

\* The position of the row id in the original dataset.
OriginalPosition(id) ==
    CHOOSE i \in 1..Len(originalData.ids) : originalData.ids[i] = id

\* C28: the cleaned dataset is an order-preserving subsequence of the
\* original one: every cleaned row is one original row, no original row
\* appears twice, and cleaned rows follow the order of their original rows.
C28_CleanedIsSubsequence ==
    ~cleanedData.null =>
        /\ ~originalData.null
        /\ Range(cleanedData.ids) \subseteq Range(originalData.ids)
        /\ \A i, j \in 1..Len(cleanedData.ids) :
              i < j => OriginalPosition(cleanedData.ids[i])
                           < OriginalPosition(cleanedData.ids[j])

\* A cleaned dataset of two rows with a dropped original row between them.
C28_Witness ==
    /\ ~cleanedData.null
    /\ Len(cleanedData.ids) >= 2
    /\ \E i \in 1..(Len(cleanedData.ids) - 1) :
          OriginalPosition(cleanedData.ids[i]) + 1
              < OriginalPosition(cleanedData.ids[i + 1])

\* C29: when no row of the loaded dataset has a Tiempo_ms field, cleanData
\* keeps at most the first row and records every other row, in order, as a
\* duplicate.
C29_NoTimeColumnKeepsFirst ==
    (cleaningReport.shown /\ ~Includes(csvHeaders, "Tiempo_ms")
        /\ \A i \in 1..Len(originalData.ids) : TimeAt(i).t = "undef") =>
        /\ Range(cleanedData.ids)
              \subseteq {originalData.ids[i] : i \in {1} \cap DOMAIN originalData.ids}
        /\ Len(cleanedData.ids) <= 1
        /\ Len(cleaningReport.duplicatesRemoved)
              = Cardinality(DOMAIN originalData.ids \ {1})
        /\ \A k \in 1..Len(cleaningReport.duplicatesRemoved) :
              /\ cleaningReport.duplicatesRemoved[k].index = k
              /\ cleaningReport.duplicatesRemoved[k].time.t = "undef"

\* A cleaned file of three rows without time column: the first row was
\* kept and the two others, within all bounds, were recorded as duplicates.
C29_Witness ==
    /\ cleaningReport.shown
    /\ ~Includes(csvHeaders, "Tiempo_ms")
    /\ Len(originalData.ids) = 3
    /\ Len(cleanedData.ids) = 1
    /\ Len(cleaningReport.duplicatesRemoved) = 2
    /\ \A i \in 2..3 : \A j \in 1..Len(physicalRanges) :
          ~ViolatesBound(rows[originalData.ids[i]], j)

\* The four ingestion variables hold the parse result of the file f.
HoldsFile(f) ==
    /\ csvHeaders = Files[f].fields
    /\ ~originalData.null
    /\ Len(originalData.ids) = Len(Files[f].data)
    /\ \A i \in 1..Len(originalData.ids) :
          DOMAIN rows[originalData.ids[i]] = DOMAIN Files[f].data[i]
    /\ cleanedData.null => (csvData = originalData /\ currentData = originalData)

\* C30: when a second file is selected while the parse of a first file is
\* still pending, then once both completion callbacks have run (nothing is
\* pending and the file shown as selected is readable) the four ingestion
\* variables hold the data of one file, and that file is the most recently
\* selected one, whose name and size the page shows.
C30_LastSelectedWins ==
    (pending = <<>> /\ fileInfo \in 1..Len(Files) /\ Files[fileInfo].readable)
        => HoldsFile(fileInfo)
====
